---- MODULE Spec2Model ----
(***************************************************************************)
(* TransactionQueue (services/TransactionQueue.js): a single in-memory     *)
(* FIFO of blockchain write operations processed by an async loop.         *)
(* One step of the model is one synchronous run of JavaScript between two  *)
(* awaits.                                                                 *)
(***************************************************************************)
EXTENDS Integers, Sequences, FiniteSets, TLC

\* ---------------------------------------------------------------- bounds
MaxOps == 3          \* operations the callers ever enqueue successfully
MaxLoops == 2        \* process() invocations that can be suspended at once
MaxTimers == 2       \* setTimeout callbacks plus running loops outstanding
MaxRetryIndex == 6   \* retry counts passed to calculateRetryDelay
JitterSteps == 10    \* Math.random() is k / JitterSteps, 0 <= k < JitterSteps
MaxClearOps == 2     \* operations enqueued where clearAll / clearCompleted are called

\* ------------------------------------------------------ program constants
maxRetries == 3
baseDelay == 1000     \* milliseconds
maxDelay == 30000     \* milliseconds

\* the account nonces signer.getNonce() may report
ChainNonces == {0, 7}

Null == 0 - 1        \* JavaScript null in a numeric field (currentNonce)
NoTx == 0            \* a loop that holds no `transaction` local

Objs == 1..MaxOps
LoopIds == 1..MaxLoops

\* ------------------------------------------------ JavaScript value domain
\* A JavaScript value is a type tag and a number: for a number its value,
\* for a string one of the string codes below, for an array its length, for
\* the result object of a mint its tokenId.
V(t, n) == [t |-> t, n |-> n]
Undefined == V("undefined", 0)
JsNull == V("null", 0)
Num(n) == V("number", n)
Str(k) == V("string", k)
Obj(k) == V("object", k)
Arr(len) == V("array", len)

\* String codes used by the payloads.
EmptyString == 0         \* ""
GoodAddress == 1         \* '0x1234567890123456789012345678901234567890'
BadAddress == 2          \* 'invalid-address'
GameLabel == 3           \* 'ROULETTE'
SomeText == 4            \* any other non-empty text

\* JavaScript truthiness of a value: !v is ~Truthy(v)
Truthy(v) ==
  CASE v.t = "undefined" -> FALSE
    [] v.t = "null" -> FALSE
    [] v.t = "number" -> v.n # 0
    [] v.t = "string" -> v.n # EmptyString
    [] OTHER -> TRUE

\* ethers.isAddress: true exactly for a well-formed 20-byte hex string
isAddress(v) == v.t = "string" /\ v.n = GoodAddress

\* transaction.data: an object with the fields the validators read and the
\* nftTokenId of the route's log data; a field the caller did not set is
\* Undefined.  present = FALSE is a missing data.
Data(present, gameType, playerAddress, betAmount, payout, result, metadata, name, description, attributes) ==
  [present |-> present, gameType |-> gameType,
   playerAddress |-> playerAddress, betAmount |-> betAmount,
   payout |-> payout, result |-> result, metadata |-> metadata,
   name |-> name, description |-> description, attributes |-> attributes,
   nftTokenId |-> Undefined]

NoData ==
  Data(FALSE, Undefined, Undefined, Undefined, Undefined, Undefined,
       Undefined, Undefined, Undefined, Undefined)

LogData(gameType, playerAddress, betAmount, payout, result) ==
  Data(TRUE, gameType, playerAddress, betAmount, payout, result,
       Undefined, Undefined, Undefined, Undefined)

NFTData(playerAddress, metadata, name, description, attributes) ==
  Data(TRUE, Undefined, playerAddress, Undefined, Undefined, Undefined,
       metadata, name, description, attributes)

\* transaction.type: 'LOG', 'NFT', another string, or "undefined" (missing)
TypeMissing == "undefined"

Tx(isNull, type, data) == [isNull |-> isNull, type |-> type, data |-> data]

ValidLog == LogData(Str(GameLabel), Str(GoodAddress), Num(1), Num(0), Obj(1))
ValidNFT == NFTData(Str(GoodAddress), Obj(1), Str(SomeText), Str(SomeText), Arr(0))

\* The payloads callers pass to enqueue() in this model.
EnqueueInputs ==
  { Tx(FALSE, "LOG", ValidLog),
    Tx(FALSE, "NFT", ValidNFT),
    Tx(TRUE, TypeMissing, NoData),
    Tx(FALSE, TypeMissing, ValidLog),
    Tx(FALSE, "INVALID", ValidLog),
    Tx(FALSE, "LOG", NoData),
    Tx(FALSE, "LOG", LogData(Str(GameLabel), Str(BadAddress), Num(1), Num(0), Obj(1))),
    Tx(FALSE, "LOG", LogData(Str(GameLabel), Str(GoodAddress), Num(0 - 1), Num(0), Obj(1))),
    Tx(FALSE, "LOG", LogData(Str(GameLabel), Str(GoodAddress), Num(1), Num(0 - 1), Obj(1))),
    Tx(FALSE, "LOG", LogData(Str(GameLabel), Str(GoodAddress), Num(1), Num(0), JsNull)),
    Tx(FALSE, "LOG", LogData(Str(GameLabel), Str(GoodAddress), Num(1), Num(0), Undefined)),
    Tx(FALSE, "LOG", LogData(Str(GameLabel), Str(GoodAddress), Str(SomeText), Num(0), Obj(1))),
    Tx(FALSE, "NFT", NFTData(Str(BadAddress), Obj(1), Str(SomeText), Str(SomeText), Arr(0))),
    Tx(FALSE, "NFT", NFTData(Str(GoodAddress), Obj(1), Str(SomeText), Undefined, Arr(0))) }

\* ------------------------------------------------------------ validation
\* the sign of the bet amount not tested
validateLogTransactionAnySign(data) ==
  /\ \A v \in {data.gameType, data.playerAddress, data.betAmount, data.payout, data.result} : v.t # "undefined" /\ v.t # "null"
  /\ isAddress(data.playerAddress)
  /\ data.betAmount.t = "number"
  /\ data.payout.t = "number" /\ data.payout.n >= 0

\* TRUE when validateLogTransaction returns, FALSE when it throws
validateLogTransaction(data) ==
  /\ \A v \in {data.gameType, data.playerAddress, data.betAmount,
               data.payout, data.result} :
        v.t # "undefined" /\ v.t # "null"
  /\ isAddress(data.playerAddress)
  /\ data.betAmount.t = "number" /\ data.betAmount.n >= 0
  /\ data.payout.t = "number" /\ data.payout.n >= 0

\* TRUE when validateNFTTransaction returns, FALSE when it throws
validateNFTTransaction(data) ==
  /\ Truthy(data.playerAddress) /\ isAddress(data.playerAddress)
  /\ Truthy(data.metadata) /\ data.metadata.t \in {"object", "array"}
  /\ \A v \in {data.name, data.description, data.attributes} : Truthy(v)

\* TRUE when validateTransaction returns, FALSE when it throws
validateTransaction(transaction) ==
  /\ ~transaction.isNull
  /\ transaction.type # TypeMissing /\ transaction.type # ""
  /\ transaction.type \in {"LOG", "NFT"}
  /\ transaction.data.present
  /\ CASE transaction.type = "LOG" -> validateLogTransaction(transaction.data)
       [] transaction.type = "NFT" -> validateNFTTransaction(transaction.data)

\* ------------------------------------------------------------------ state
VARIABLES
  queue,         \* this.queue: the array, as a sequence of object identities
  tx,            \* the queued-transaction objects, by identity
  processing,    \* this.processing
  currentNonce,  \* this.currentNonce (Null until initializeNonce succeeded)
  signer,        \* this.signer is set
  loops,         \* the process() invocations: where each one is suspended
  timers,        \* setTimeout callbacks scheduled and not yet run
  lastEnqueue,   \* how the most recent enqueue() call ended
  dispatched,    \* history: submissions started for each object
  nonceRead,     \* history: the value the first successful getNonce() gave
  client,        \* the caller a specification follows: what it passes or where it is
  reply          \* what that caller last got back

vars == <<queue, tx, processing, currentNonce, signer, loops, timers, lastEnqueue, dispatched, nonceRead, client, reply>>

\* the caller's side: no code of the queue writes it
caller == <<client, reply>>

Blank == [id |-> 0, type |-> "", data |-> NoData, status |-> "NONE", retryCount |-> 0, error |-> JsNull, result |-> JsNull]

Idle == [pc |-> "idle", transaction |-> NoTx]

\* The fields a synchronous run of queue code can change.
Cur == [queue |-> queue, tx |-> tx, processing |-> processing, loops |-> loops, timers |-> timers, dispatched |-> dispatched]

Set(S) ==
  /\ queue' = S.queue
  /\ tx' = S.tx
  /\ processing' = S.processing
  /\ loops' = S.loops
  /\ timers' = S.timers
  /\ dispatched' = S.dispatched

Created == {o \in Objs : tx[o].status # "NONE"}

ActiveLoops == {l \in LoopIds : loops[l].pc # "idle"}

\* A loop in `while (this.queue.length > 0)` with a PROCESSING head never
\* awaits: it holds the event loop and no other code runs again.
Spinning == \E l \in LoopIds : loops[l].pc = "spin"

FreeLoop(ls) == CHOOSE l \in LoopIds : ls[l].pc = "idle" /\ \A k \in LoopIds : ls[k].pc = "idle" => l <= k

\* uuidv4(): a fresh identifier, the n-th call returns n
uuidv4(n) == n

\* ------------------------------------------------------ processTransaction
\* the attempt counted when the submission starts
processTransactionStartCounting(t, h) == [t EXCEPT ![h].status = "PROCESSING", ![h].retryCount = @ + 1]

\* up to the await of the submission: status and lastAttempt are set
processTransactionStart(t, h) == [t EXCEPT ![h].status = "PROCESSING"]

\* QIEGameNFT: the contract's _tokenIdCounter starts at 1 and a mint takes
\* its value; the mints are those of this queue
firstTokenId == 1

mintGameNFT(t) == firstTokenId + Cardinality({o \in Objs : t[o].type = "NFT" /\ t[o].status = "COMPLETED"})

\* what processLogTransaction / processNFTTransaction resolve with
submissionResult(t, h) == IF t[h].type = "NFT" THEN Obj(mintGameNFT(t)) ELSE Obj(0)

\* the error of the earlier attempts left in place
processTransactionOkKeepingError(t, h) == [t EXCEPT ![h].status = "COMPLETED", ![h].result = submissionResult(t, h)]

\* the submission resolved
processTransactionOk(t, h) == [t EXCEPT ![h].status = "COMPLETED", ![h].result = submissionResult(t, h), ![h].error = JsNull]

\* the submission rejected: the catch block
processTransactionFail(t, h) == [t EXCEPT ![h].status = "FAILED", ![h].error = Str(SomeText), ![h].retryCount = @ + 1]

\* ------------------------------------------------------------- process()
\* the guard dropped: every call goes on
alreadyProcessingNever(p) == FALSE

\* `if (this.processing) return`
alreadyProcessing(p) == p

\* the guard dropped
noSignerIgnored(s) == FALSE

\* `if (!this.signer) return`
noSigner(s) == ~s

\* Array.prototype.shift on the queue: removes the first element, if any
shift(q) == IF q = <<>> THEN q ELSE Tail(q)

\* the cap compared with > instead of >=
isRemovableOffByOne(r) == r.status = "COMPLETED" \/ (r.status = "FAILED" /\ r.retryCount > maxRetries)

\* the removal test of lines 748-749 on the loop's `transaction`
isRemovable(r) == r.status = "COMPLETED" \/ (r.status = "FAILED" /\ r.retryCount >= maxRetries)

\* the test of line 743: the head is handed to processTransaction
isDispatchable(r) == r.status = "PENDING" \/ r.status = "FAILED"

\* a FAILED operation not looked for
isSchedulablePendingOnly(r) == r.status = "PENDING"

\* the `find` of the finally block
isSchedulable(r) == r.status = "PENDING" \/ (r.status = "FAILED" /\ r.retryCount < maxRetries)

RECURSIVE whileLoop(_, _)
\* The while loop from its top, run until it awaits or leaves: a head that
\* is not handed to processTransaction is tested for removal at once.
whileLoop(q, t) ==
  IF q = <<>> THEN [exit |-> "drained", queue |-> q, head |-> NoTx]
  ELSE IF isDispatchable(t[Head(q)]) THEN [exit |-> "dispatch", queue |-> q, head |-> Head(q)]
  ELSE IF isRemovable(t[Head(q)]) THEN whileLoop(shift(q), t)
  ELSE IF t[Head(q)].status = "FAILED" THEN [exit |-> "break", queue |-> q, head |-> NoTx]
  ELSE [exit |-> "spin", queue |-> q, head |-> Head(q)]

\* a retrying head moved behind the others instead of stopping the loop
afterProcessTransactionSkipping(h, q, t) ==
  IF isRemovable(t[h]) THEN whileLoop(shift(q), t)
  ELSE IF t[h].status = "FAILED" THEN whileLoop(Append(shift(q), h), t)
  ELSE whileLoop(q, t)

\* the FAILED test made before the removal test: an exhausted head stays
afterProcessTransactionBreakFirst(h, q, t) ==
  IF t[h].status = "FAILED" THEN [exit |-> "break", queue |-> q, head |-> NoTx]
  ELSE IF isRemovable(t[h]) THEN whileLoop(shift(q), t)
  ELSE whileLoop(q, t)

\* The loop body after `await this.processTransaction(transaction)`:
\* `transaction` is the object taken before the await, the queue is the
\* array as it is now.
afterProcessTransaction(h, q, t) ==
  IF isRemovable(t[h]) THEN whileLoop(shift(q), t)
  ELSE IF t[h].status = "FAILED" THEN [exit |-> "break", queue |-> q, head |-> NoTx]
  ELSE whileLoop(q, t)

\* the finally block without `this.processing = false`
finallyKeepingFlag(l, S) ==
  [S EXCEPT !.loops[l] = Idle,
            !.timers = IF \E i \in 1..Len(S.queue) : isSchedulable(S.tx[S.queue[i]]) THEN @ + 1 ELSE @]

\* the finally block without its setTimeout
finallyWithoutTimer(l, S) == [S EXCEPT !.processing = FALSE, !.loops[l] = Idle]

\* the finally block: reset the flag, schedule the next run
finally(l, S) ==
  [S EXCEPT !.processing = FALSE,
            !.loops[l] = Idle,
            !.timers = IF \E i \in 1..Len(S.queue) : isSchedulable(S.tx[S.queue[i]]) THEN @ + 1 ELSE @]

\* what loop l does with the outcome r of its while loop
runLoop(l, r, S) ==
  CASE r.exit = "dispatch" ->
         [S EXCEPT !.queue = r.queue,
                   !.tx = processTransactionStart(S.tx, r.head),
                   !.loops[l] = [pc |-> "submit", transaction |-> r.head],
                   !.dispatched[r.head] = @ + 1]
    [] r.exit = "spin" ->
         [S EXCEPT !.queue = r.queue, !.loops[l] = [pc |-> "spin", transaction |-> r.head]]
    [] OTHER -> finally(l, [S EXCEPT !.queue = r.queue])

\* the re-entrancy guard placed inside the try: its return runs the finally
processGuardInTry(S) ==
  IF alreadyProcessing(S.processing) THEN [S EXCEPT !.processing = FALSE]
  ELSE IF Len(S.queue) = 0 THEN S
  ELSE IF noSigner(signer) THEN S
  ELSE LET l == FreeLoop(S.loops)
           S1 == [S EXCEPT !.processing = TRUE]
       IN IF currentNonce = Null
          THEN [S1 EXCEPT !.loops[l] = [pc |-> "initNonce", transaction |-> NoTx]]
          ELSE runLoop(l, whileLoop(S1.queue, S1.tx), S1)

\* process() from its call to its first await or its return
process(S) ==
  IF alreadyProcessing(S.processing) THEN S
  ELSE IF Len(S.queue) = 0 THEN S
  ELSE IF noSigner(signer) THEN S
  ELSE LET l == FreeLoop(S.loops)
           S1 == [S EXCEPT !.processing = TRUE]
       IN IF currentNonce = Null
          THEN [S1 EXCEPT !.loops[l] = [pc |-> "initNonce", transaction |-> NoTx]]
          ELSE runLoop(l, whileLoop(S1.queue, S1.tx), S1)

\* A call of process() on S starts a loop (it passes the three guards).
Starts(S) == ~alreadyProcessing(S.processing) /\ Len(S.queue) > 0 /\ ~noSigner(signer)

\* A loop can start only while the model has room for it and its timer.
Room(S) == Starts(S) => (S.timers + Cardinality(ActiveLoops) < MaxTimers /\ ActiveLoops # LoopIds)

\* ------------------------------------------------------------- queries
InQueue(q, o) == \E i \in 1..Len(q) : q[i] = o

NotFound == [found |-> FALSE, id |-> 0, type |-> "", status |-> "NONE", retryCount |-> 0, error |-> JsNull, result |-> JsNull]

\* the object getStatus returns for a queued transaction r
snapshot(r) == [found |-> TRUE, id |-> r.id, type |-> r.type, status |-> r.status, retryCount |-> r.retryCount, error |-> r.error, result |-> r.result]

\* an id that is not queued answered with the head of the queue
getStatusOrHead(id) ==
  IF \E i \in 1..Len(queue) : tx[queue[i]].id = id
  THEN snapshot(tx[queue[CHOOSE i \in 1..Len(queue) : tx[queue[i]].id = id]])
  ELSE IF queue = <<>> THEN NotFound ELSE snapshot(tx[queue[1]])

\* getStatus(id): the snapshot of the queued object with that id, or null
getStatus(id) ==
  IF \E i \in 1..Len(queue) : tx[queue[i]].id = id
  THEN LET i == CHOOSE i \in 1..Len(queue) : tx[queue[i]].id = id /\ \A j \in 1..(i - 1) : tx[queue[j]].id # id
       IN snapshot(tx[queue[i]])
  ELSE NotFound

\* the number of queued objects in a status
CountStatus(st) == Cardinality({i \in 1..Len(queue) : tx[queue[i]].status = st})

\* getStats(): the `processing` key is written twice in the literal, so it
\* starts as the flag and `stats[tx.status.toLowerCase()]++` then turns it
\* into a number for every PROCESSING object
getStats ==
  [total |-> Len(queue),
   pending |-> CountStatus("PENDING"),
   completed |-> CountStatus("COMPLETED"),
   failed |-> CountStatus("FAILED"),
   processing |-> IF CountStatus("PROCESSING") = 0
                  THEN V("boolean", IF processing THEN 1 ELSE 0)
                  ELSE Num((IF processing THEN 1 ELSE 0) + CountStatus("PROCESSING"))]

\* ---------------------------------------------------------------- actions
QueueInit ==
  /\ queue = <<>>
  /\ tx = [o \in Objs |-> Blank]
  /\ processing = FALSE
  /\ currentNonce = Null
  /\ signer \in BOOLEAN
  /\ loops = [l \in LoopIds |-> Idle]
  /\ timers = 0
  /\ lastEnqueue = "none"
  /\ dispatched = [o \in Objs |-> 0]
  /\ nonceRead = Null

\* no caller is followed: the queue alone
NoCaller == client = 0 /\ reply = 0

Init == QueueInit /\ NoCaller

\* the object enqueue() builds for an accepted transaction
queuedTransaction(transaction, n) == [id |-> uuidv4(n), type |-> transaction.type, data |-> transaction.data, status |-> "PENDING", retryCount |-> 0, error |-> JsNull, result |-> JsNull]

\* enqueue(transaction): validate, push, start the loop unless it runs
enqueueStep(transaction) ==
  /\ ~Spinning
  /\ IF ~validateTransaction(transaction)
     THEN /\ lastEnqueue' = "threw"
          /\ UNCHANGED <<queue, tx, processing, loops, timers, dispatched>>
     ELSE /\ Created # Objs
          /\ LET o == Cardinality(Created) + 1
                 S0 == [Cur EXCEPT !.queue = Append(queue, o), !.tx[o] = queuedTransaction(transaction, o)]
             IN /\ ~S0.processing => Room(S0)
                /\ Set(IF ~S0.processing THEN process(S0) ELSE S0)
          /\ lastEnqueue' = "ok"
  /\ UNCHANGED <<currentNonce, signer, nonceRead>>

\* enqueue called by a caller the model does not follow
enqueue(transaction) == enqueueStep(transaction) /\ UNCHANGED caller

Enqueue == \E transaction \in EnqueueInputs : enqueue(transaction)

\* a caller's own process() call (the POST handler, after its two enqueues)
processStep ==
  /\ ~Spinning
  /\ Room(Cur)
  /\ Set(process(Cur))
  /\ UNCHANGED <<currentNonce, signer, lastEnqueue, nonceRead>>

\* process() called by a caller the model does not follow
ProcessCall == processStep /\ UNCHANGED caller

\* a setTimeout callback of the finally block runs: it calls process()
TimerFire ==
  /\ ~Spinning
  /\ timers > 0
  /\ LET S0 == [Cur EXCEPT !.timers = @ - 1]
     IN /\ Starts(S0) => ActiveLoops # LoopIds
        /\ Set(process(S0))
  /\ UNCHANGED <<currentNonce, signer, lastEnqueue, nonceRead>>
  /\ UNCHANGED caller

\* initializeNonce: signer.getNonce() resolved with n; the loop goes on
NonceReadOk(l, n) ==
  /\ ~Spinning
  /\ loops[l].pc = "initNonce"
  /\ currentNonce' = n
  /\ nonceRead' = IF nonceRead = Null THEN n ELSE nonceRead
  /\ Set(runLoop(l, whileLoop(queue, tx), Cur))
  /\ UNCHANGED <<signer, lastEnqueue>>
  /\ UNCHANGED caller

\* initializeNonce: signer.getNonce() rejected; process() catches, finally
NonceReadFail(l) ==
  /\ ~Spinning
  /\ loops[l].pc = "initNonce"
  /\ Set(finally(l, Cur))
  /\ UNCHANGED <<currentNonce, signer, lastEnqueue, nonceRead>>
  /\ UNCHANGED caller

\* the submission of loop l's transaction resolved
SubmitOk(l) ==
  /\ ~Spinning
  /\ loops[l].pc = "submit"
  /\ tx[loops[l].transaction].type \in {"LOG", "NFT"}
  /\ tx' = processTransactionOk(tx, loops[l].transaction)
  /\ loops' = [loops EXCEPT ![l].pc = "settled"]
  /\ UNCHANGED <<queue, processing, currentNonce, signer, timers, lastEnqueue, dispatched, nonceRead>>
  /\ UNCHANGED caller

\* the submission of loop l's transaction rejected
SubmitFail(l) ==
  /\ ~Spinning
  /\ loops[l].pc = "submit"
  /\ tx' = processTransactionFail(tx, loops[l].transaction)
  /\ loops' = [loops EXCEPT ![l].pc = "settled"]
  /\ UNCHANGED <<queue, processing, currentNonce, signer, timers, lastEnqueue, dispatched, nonceRead>>
  /\ UNCHANGED caller

\* process() resumes after `await this.processTransaction(transaction)`
Resume(l) ==
  /\ ~Spinning
  /\ loops[l].pc = "settled"
  /\ Set(runLoop(l, afterProcessTransaction(loops[l].transaction, queue, tx), Cur))
  /\ UNCHANGED <<currentNonce, signer, lastEnqueue, nonceRead>>
  /\ UNCHANGED caller

\* setProviderAndSigner(provider, signer): the callers pass a wallet
SetProviderAndSigner ==
  /\ ~Spinning
  /\ signer' = TRUE
  /\ UNCHANGED <<queue, tx, processing, currentNonce, loops, timers, lastEnqueue, dispatched, nonceRead>>
  /\ UNCHANGED caller

NonceOk == \E l \in LoopIds, n \in ChainNonces : NonceReadOk(l, n)
NonceFail == \E l \in LoopIds : NonceReadFail(l)
Settle == \E l \in LoopIds : SubmitOk(l) \/ SubmitFail(l)
Continue == \E l \in LoopIds : Resume(l)

Next ==
  \/ Enqueue
  \/ ProcessCall
  \/ TimerFire
  \/ NonceOk
  \/ NonceFail
  \/ Settle
  \/ Continue
  \/ SetProviderAndSigner

Spec == Init /\ [][Next]_vars

\* The queue left to itself with a signer configured from the start and a
\* chain that answers: every nonce read succeeds, every submission returns,
\* every scheduled timer runs.  Callers may still enqueue and call process().
LiveInit == Init /\ signer

\* the callers' enqueues that are accepted
EnqueueValid == \E transaction \in {Tx(FALSE, "LOG", ValidLog), Tx(FALSE, "NFT", ValidNFT)} : enqueue(transaction)

\* the account is fresh: its nonce read answers 0
NonceOkFresh == \E l \in LoopIds : NonceReadOk(l, 0)

LiveNext ==
  \/ EnqueueValid
  \/ ProcessCall
  \/ TimerFire
  \/ NonceOkFresh
  \/ Settle
  \/ Continue

LiveSpec ==
  /\ LiveInit
  /\ [][LiveNext]_vars
  /\ WF_vars(TimerFire)
  /\ WF_vars(NonceOkFresh)
  /\ WF_vars(Settle)
  /\ WF_vars(Continue)

\* ----------------------------------------------------------------- claims
InFlight == {o \in Objs : tx[o].status = "PROCESSING"}

\* C1: in every reachable state at most one operation has status PROCESSING.
C1_AtMostOneProcessing == Cardinality(InFlight) <= 1

\* C1 witness: one operation is in flight while others wait behind it and a
\* retry timer of an earlier loop is still pending.
C1_Witness == Cardinality(InFlight) = 1 /\ Len(queue) >= 2 /\ timers > 0

\* terminal: COMPLETED, or FAILED with the attempt cap exhausted
Terminal(r) == r.status = "COMPLETED" \/ (r.status = "FAILED" /\ r.retryCount >= maxRetries)

C3_ThreeAttempts ==
  \A o \in Created :
    /\ dispatched[o] <= maxRetries
    /\ (tx[o].status = "FAILED" /\ ~InQueue(queue, o)) => (dispatched[o] = 3 /\ tx[o].retryCount = 3 /\ tx[o].error # JsNull)

\* C3 witness: an abandoned operation is out of the queue and a later
\* operation has been dispatched since.
C3_Witness == \E o \in Created, p \in Created : o < p /\ tx[o].status = "FAILED" /\ ~InQueue(queue, o) /\ dispatched[p] > 0 /\ timers > 0

\* C4 (as claimed): retryCount equals the number of dispatches started.
C4_CountsDispatches == \A o \in Created : tx[o].retryCount = dispatched[o]

\* C4 (amended): retryCount equals the number of failed submissions: the
\* dispatches started, less the one in flight or the one that succeeded.
C4_CountsFailures == \A o \in Created : tx[o].retryCount = dispatched[o] - (IF tx[o].status \in {"PROCESSING", "COMPLETED"} THEN 1 ELSE 0)

\* C4 witness: two failures then a success: COMPLETED with retryCount 2.
C4_Witness == \E o \in Created : tx[o].status = "COMPLETED" /\ dispatched[o] = 3 /\ tx[o].retryCount = 2

\* C5: a terminal operation that has left the queue is still answered by
\* getStatus with its terminal state and its result or error.
C5_TerminalQueryable ==
  \A o \in Created :
    (Terminal(tx[o]) /\ ~InQueue(queue, o)) =>
       (getStatus(tx[o].id).found /\ getStatus(tx[o].id).status = tx[o].status /\ getStatus(tx[o].id).result = tx[o].result /\ getStatus(tx[o].id).error = tx[o].error)

\* C6: a FAILED operation is dispatched again only by a step that runs a
\* timer callback.
C6_RetryOnlyByTimer == [][\A o \in Objs : (tx[o].status = "FAILED" /\ tx'[o].status = "PROCESSING") => timers' < timers]_vars

RECURSIVE SumTo(_, _)
SumTo(f, n) == IF n = 0 THEN 0 ELSE f[n] + SumTo(f, n - 1)

\* C7: once initialized, currentNonce is the nonce read from the chain plus
\* the number of dispatches made so far.
C7_NonceCountsDispatches == currentNonce # Null => currentNonce = nonceRead + SumTo(dispatched, MaxOps)

\* C8: every enqueued operation eventually is COMPLETED or FAILED with its
\* attempts exhausted and has left the queue.
C8_EventuallyTerminal == \A o \in Objs : (tx[o].status # "NONE") ~> (Terminal(tx[o]) /\ ~InQueue(queue, o))

\* C8 witness: the queue drained by itself: an operation that needed a retry
\* timer completed, another was abandoned, nothing is left to run.
C8_Witness == queue = <<>> /\ timers = 0 /\ ActiveLoops = {} /\ (\E o \in Created : tx[o].status = "COMPLETED" /\ tx[o].retryCount > 0) /\ (\E o \in Created : tx[o].status = "FAILED")

\* C9: while no signer is configured every enqueued operation stays queued
\* and PENDING with attempt 0, getStats().total is their number, the
\* processing flag is false and nothing is dispatched or scheduled.
C9_NoSignerNoOp ==
  ~signer =>
    /\ ~processing /\ ActiveLoops = {} /\ timers = 0 /\ currentNonce = Null
    /\ getStats.total = Cardinality(Created) /\ getStats.pending = getStats.total
    /\ \A o \in Created : InQueue(queue, o) /\ tx[o].status = "PENDING" /\ tx[o].retryCount = 0 /\ dispatched[o] = 0

\* C9 witness: two operations were accepted without a signer.
C9_Witness == ~signer /\ Len(queue) >= 2 /\ lastEnqueue = "ok"

\* the payloads the claim names: unknown or missing type, missing data,
\* malformed player address, negative bet amount or payout, missing result
C10_Malformed(t) ==
  \/ t.type \notin {"LOG", "NFT"}
  \/ ~t.data.present
  \/ t.data.playerAddress = Str(BadAddress)
  \/ t.type = "LOG" /\ t.data.betAmount.t = "number" /\ t.data.betAmount.n < 0
  \/ t.type = "LOG" /\ t.data.payout.t = "number" /\ t.data.payout.n < 0
  \/ t.type = "LOG" /\ t.data.result.t \in {"undefined", "null"}

\* the effect the claim allows: the call threw, nothing else changed
C10_Rejected == lastEnqueue' = "threw" /\ UNCHANGED <<queue, tx, processing, currentNonce, signer, loops, timers, dispatched, nonceRead>>

\* C10: in every reachable state an enqueue() of a malformed payload can
\* only throw and change nothing.
C10_RejectChangesNothing == \A t \in EnqueueInputs : C10_Malformed(t) => ~ENABLED (enqueue(t) /\ ~C10_Rejected)

\* C10 witness: a payload was rejected while the loop was running on a
\* non-empty queue.
C10_Witness == lastEnqueue = "threw" /\ Len(queue) >= 1 /\ processing /\ currentNonce # Null

\* ------------------------------------------- validateTransaction by itself
\* The payloads handed to validateTransaction: every combination of the
\* field values below for a LOG and for an NFT payload, and the payloads
\* that fail before the type-specific rules.
LogInputs ==
  { Tx(FALSE, "LOG", LogData(g, a, b, p, r)) :
      g \in {Str(GameLabel), Str(EmptyString), Undefined, JsNull},
      a \in {Str(GoodAddress), Str(BadAddress), Undefined},
      b \in {Num(1), Num(0), Num(0 - 1), Str(SomeText), Undefined},
      p \in {Num(0), Num(0 - 1), JsNull},
      r \in {Obj(1), JsNull, Undefined} }

NFTInputs ==
  { Tx(FALSE, "NFT", NFTData(a, m, n, d, t)) :
      a \in {Str(GoodAddress), Str(BadAddress), Undefined},
      m \in {Obj(1), Str(SomeText), Undefined},
      n \in {Str(SomeText), Undefined},
      d \in {Str(SomeText), Undefined},
      t \in {Arr(0), Arr(1), Undefined} }

ValidateInputs ==
  LogInputs \cup NFTInputs \cup
  { Tx(TRUE, TypeMissing, NoData), Tx(FALSE, TypeMissing, ValidLog),
    Tx(FALSE, "", ValidLog), Tx(FALSE, "INVALID", ValidLog),
    Tx(FALSE, "LOG", NoData), Tx(FALSE, "NFT", NoData) }

\* a caller holds one payload and has not called yet
ValidateInit == QueueInit /\ client \in ValidateInputs /\ reply = "none"

\* the call validateTransaction(client): it returns or it throws
Validate ==
  /\ reply = "none"
  /\ reply' = IF validateTransaction(client) THEN "returned" ELSE "threw"
  /\ UNCHANGED <<queue, tx, processing, currentNonce, signer, loops, timers, lastEnqueue, dispatched, nonceRead, client>>

ValidateSpec == ValidateInit /\ [][Validate]_vars

\* The acceptance rules as the claim states them.
C11_LogRule(data) ==
  /\ data.gameType.t = "string" /\ data.gameType.n # EmptyString
  /\ isAddress(data.playerAddress)
  /\ data.betAmount.t = "number" /\ data.betAmount.n >= 0
  /\ data.payout.t = "number" /\ data.payout.n >= 0
  /\ data.result.t \notin {"null", "undefined"}

C11_NFTRule(data) ==
  /\ isAddress(data.playerAddress)
  /\ data.metadata.t = "object"
  /\ \A v \in {data.name, data.description, data.attributes} : v.t \notin {"null", "undefined"}

C11_Rule(t) ==
  /\ ~t.isNull
  /\ t.data.present
  /\ \/ t.type = "LOG" /\ C11_LogRule(t.data)
     \/ t.type = "NFT" /\ C11_NFTRule(t.data)

\* C11: validateTransaction returns (accepts) exactly for the payloads that
\* meet the stated rules: a LOG payload with a non-empty game-type label, a
\* well-formed player address, non-negative numeric bet amount and payout and
\* a non-null result; an NFT payload with a well-formed player address and a
\* metadata object with name, description and attributes.
C11_AcceptsExactlyByRule == reply # "none" => (reply = "returned" <=> C11_Rule(client))

\* ------------------------------------------------------ a polling client
\* GET /api/log-game?id=... answers getStatus(id), or 404 when it is null.
\* The client (the hook useTransactionStatus, the integration script) asks at
\* a fixed interval and stops at a snapshot that is COMPLETED or FAILED; a
\* 404 leaves it polling.  client is the id it polls, reply the last answer.
UnknownId == MaxOps + 1

\* nothing received yet
NoReply == [NotFound EXCEPT !.status = "NOREPLY"]

PollInit == QueueInit /\ signer /\ client \in {1, UnknownId} /\ reply = NoReply

\* the client goes on polling
Polling == ~(reply.found /\ reply.status \in {"COMPLETED", "FAILED"})

\* one tick of the client's interval: the request and its answer
Poll ==
  /\ ~Spinning
  /\ Polling
  /\ reply' = getStatus(client)
  /\ UNCHANGED <<queue, tx, processing, currentNonce, signer, loops, timers, lastEnqueue, dispatched, nonceRead, client>>

PollNext ==
  \/ EnqueueValid
  \/ ProcessCall
  \/ TimerFire
  \/ NonceOkFresh
  \/ Settle
  \/ Continue
  \/ Poll

PollSpec ==
  /\ PollInit
  /\ [][PollNext]_vars
  /\ WF_vars(TimerFire)
  /\ WF_vars(NonceOkFresh)
  /\ WF_vars(Settle)
  /\ WF_vars(Continue)
  /\ WF_vars(Poll)

\* C13: a client polling the id of an operation whose submission succeeds
\* eventually receives a snapshot with status COMPLETED and the result (and
\* then stops polling).
C13_PollSeesCompleted == (client \in Objs /\ tx[client].status = "COMPLETED") ~> (reply.found /\ reply.status = "COMPLETED" /\ reply.result = tx[client].result)

\* ------------------------------------------- calculateRetryDelay by itself
RECURSIVE pow2(_)
pow2(n) == IF n = 0 THEN 1 ELSE 2 * pow2(n - 1)

min(a, b) == IF a <= b THEN a ELSE b

\* Math.floor(delay + jitter), jitter = Math.random() * 0.1 * delay, with the
\* random number k / JitterSteps: delay is whole, so the floor falls on jitter
floorWithJitter(delay, k) == delay + ((k * delay) \div (10 * JitterSteps))

\* the cap of maxDelay not applied
calculateRetryDelayUncapped(retryCount, k) ==
  floorWithJitter(baseDelay * pow2(retryCount), k)

\* calculateRetryDelay(retryCount), k the random draw
calculateRetryDelay(retryCount, k) ==
  LET delay == min(baseDelay * pow2(retryCount), maxDelay)
  IN floorWithJitter(delay, k)

\* a caller holds a retry count; the random draw is fixed with it
DelayInit ==
  /\ QueueInit
  /\ client \in [retryCount : 0..MaxRetryIndex, random : 0..(JitterSteps - 1)]
  /\ reply = Null

\* the call calculateRetryDelay(client.retryCount)
CalculateRetryDelay ==
  /\ reply = Null
  /\ reply' = calculateRetryDelay(client.retryCount, client.random)
  /\ UNCHANGED <<queue, tx, processing, currentNonce, signer, loops, timers, lastEnqueue, dispatched, nonceRead, client>>

DelaySpec == DelayInit /\ [][CalculateRetryDelay]_vars

\* the claim's B for the retry index of the call
C14_B == min(1000 * pow2(client.retryCount), 30000)

\* C14: for each retry index n the delay d returned by calculateRetryDelay(n)
\* satisfies B <= d <= 1.1 * B with B = min(1000 * 2^n, 30000), whatever the
\* random jitter, so d never exceeds 33000 ms.
C14_DelayWithinBand == reply # Null => (C14_B <= reply /\ 10 * reply <= 11 * C14_B /\ reply <= 33000)

\* C14 witness: a call past the cap (1000 * 2^5 > 30000) with the largest
\* jitter returned a delay above the cap.
C14_Witness == reply # Null /\ client.retryCount >= 5 /\ client.random = JitterSteps - 1 /\ reply > 30000

\* C15: in every reachable state, also while an operation is in flight,
\* getStats() gives total = the queue length, pending / completed / failed =
\* the number of queued operations in that state, an in-flight count such
\* that the counts sum to total, and a loop-active indicator equal to the
\* processing flag.  (The object has one `processing` key for both.)
C15_StatsMatchQueue ==
  LET stats == getStats
  IN /\ stats.total = Len(queue)
     /\ stats.pending = CountStatus("PENDING")
     /\ stats.completed = CountStatus("COMPLETED")
     /\ stats.failed = CountStatus("FAILED")
     /\ stats.processing = V("boolean", IF processing THEN 1 ELSE 0)
     /\ stats.pending + CountStatus("PROCESSING") + stats.completed + stats.failed = stats.total

\* ------------------------------------------------- POST /api/log-game
\* The handler of one game result: it enqueues the NFT operation, then the
\* LOG operation, then calls process() and answers with the two ids.  Each
\* await hands the event loop to the queue.  client is the handler's
\* position, reply the ids it has got.  Requests are handled one at a time.
gameLogData == [ValidLog EXCEPT !.nftTokenId = Num(0)]

NoResponse == [nft |-> 0, log |-> 0]

PostInit == QueueInit /\ signer /\ client = "idle" /\ reply = NoResponse

\* up to `await transactionQueue.enqueue({ type: 'NFT', ... })`
PostNFT ==
  /\ client = "idle"
  /\ signer
  /\ enqueueStep(Tx(FALSE, "NFT", ValidNFT))
  /\ client' = "nftQueued"
  /\ reply' = [nft |-> uuidv4(Cardinality(Created) + 1), log |-> 0]

\* up to `await transactionQueue.enqueue({ type: 'LOG', data: gameLogData })`
PostLOG ==
  /\ client = "nftQueued"
  /\ enqueueStep(Tx(FALSE, "LOG", gameLogData))
  /\ client' = "logQueued"
  /\ reply' = [reply EXCEPT !.log = uuidv4(Cardinality(Created) + 1)]

\* transactionQueue.process() and the response
PostProcess ==
  /\ client = "logQueued"
  /\ processStep
  /\ client' = "idle"
  /\ UNCHANGED reply

PostNext ==
  \/ PostNFT
  \/ PostLOG
  \/ PostProcess
  \/ TimerFire
  \/ NonceOkFresh
  \/ Settle
  \/ Continue

PostSpec == PostInit /\ [][PostNext]_vars

\* C16: the LOG operation of a game carries the token id minted by the
\* game's NFT operation: when the LOG operation has been dispatched, the NFT
\* operation was dispatched before it, and once the mint is COMPLETED the
\* nftTokenId of the LOG payload equals the tokenId of the mint's result.
C16_LogCarriesMintedToken ==
  (reply.log \in Objs /\ dispatched[reply.log] > 0) =>
     /\ dispatched[reply.nft] > 0
     /\ tx[reply.nft].status = "COMPLETED" => tx[reply.log].data.nftTokenId = Num(tx[reply.nft].result.n)

\* the ids enqueue() has returned so far
Issued == {tx[o].id : o \in Created}

\* C17: getStatus(id) for an id that was never issued returns null (no
\* exception) and changes nothing of the queue: in every state every such
\* id is answered null, the client polling such an id has only ever received
\* null, and its poll leaves the queue's state as it was.
C17_UnknownIdIsNull ==
  /\ \A id \in (1..UnknownId) \ Issued : getStatus(id) = NotFound
  /\ client \notin Issued =>
       /\ reply \in {NoReply, NotFound}
       /\ ~ENABLED (Poll /\ ~UNCHANGED <<queue, tx, processing, currentNonce, signer, loops, timers, lastEnqueue, dispatched, nonceRead>>)

\* C17 witness: the client polled an id that is never issued while the queue
\* held operations, one of them in flight, and was answered null.
C17_Witness == client = UnknownId /\ reply = NotFound /\ Len(queue) >= 2 /\ InFlight # {}

\* ------------------------------------------- clearAll and clearCompleted
\* The maintenance calls, made by a caller at any moment the event loop is
\* free.  client is the name of the last such call, reply what it returned.
filter(q, t) == SelectSeq(q, LAMBDA o : t[o].status # "COMPLETED")

\* clearCompleted(): the queue without its COMPLETED objects
clearCompleted(S) == [S EXCEPT !.queue = filter(S.queue, S.tx)]

\* the processing flag left as it is
clearAllKeepingFlag(S) == [S EXCEPT !.queue = <<>>]

\* clearAll(): a new empty array, the flag reset
clearAll(S) == [S EXCEPT !.queue = <<>>, !.processing = FALSE]

ClearInit == QueueInit /\ signer /\ client = "none" /\ reply = Null

ClearCompleted ==
  /\ ~Spinning
  /\ Set(clearCompleted(Cur))
  /\ client' = "clearCompleted"
  /\ reply' = Len(queue) - Len(filter(queue, tx))
  /\ UNCHANGED <<currentNonce, signer, lastEnqueue, nonceRead>>

ClearAll ==
  /\ ~Spinning
  /\ Set(clearAll(Cur))
  /\ client' = "clearAll"
  /\ reply' = Len(queue)
  /\ UNCHANGED <<currentNonce, signer, lastEnqueue, nonceRead>>

\* the enqueues of the callers, MaxClearOps of them
ClearEnqueue == Cardinality(Created) < MaxClearOps /\ EnqueueValid

ClearNext ==
  \/ ClearEnqueue
  \/ ProcessCall
  \/ TimerFire
  \/ NonceOkFresh
  \/ Settle
  \/ Continue
  \/ ClearCompleted
  \/ ClearAll

ClearSpec == ClearInit /\ [][ClearNext]_vars

\* C18: clearAll() on a queue of n operations, whatever their states,
\* returns n and leaves the queue empty and the processing flag false.
C18_ClearAllResets == ~ENABLED (ClearAll /\ ~(reply' = Len(queue) /\ queue' = <<>> /\ processing' = FALSE))

\* C18 witness: clearAll() has just returned 2 for a queue whose head was in
\* flight; the queue is empty, the flag false, the submission still awaited.
C18_Witness == client = "clearAll" /\ reply = 2 /\ queue = <<>> /\ ~processing /\ InFlight # {} /\ Cardinality(Created) = 2

\* C19: a process() call made while the processing flag is true returns at
\* once and changes nothing: queue, statuses, attempt counts, nonce, flag,
\* loops and timers stay as they are and nothing is dispatched.
C19_ReentrantCallNoOp == processing => ~ENABLED (ProcessCall /\ ~UNCHANGED vars)

\* C19 witness: process() can be called while a loop awaits the submission
\* of a retried head with another operation queued behind it.
C19_Witness ==
  /\ processing
  /\ ENABLED ProcessCall
  /\ \E l \in LoopIds : loops[l].pc = "submit" /\ tx[loops[l].transaction].retryCount > 0
  /\ Len(queue) >= 2
  /\ currentNonce # Null

\* the status changes the claim allows for an operation with attempt count n
C20_Allowed(from, to, n) ==
  \/ from = to
  \/ from = "NONE" /\ to = "PENDING"
  \/ from = "PENDING" /\ to = "PROCESSING"
  \/ from = "PROCESSING" /\ to \in {"COMPLETED", "FAILED"}
  \/ from = "FAILED" /\ to = "PENDING" /\ n < maxRetries

\* C20: an operation's status only moves PENDING -> PROCESSING, PROCESSING
\* -> COMPLETED, PROCESSING -> FAILED and, while retries remain, FAILED ->
\* PENDING; COMPLETED and exhausted FAILED are never left, and every
\* dispatch (the step to PROCESSING) starts from PENDING.
C20_StatusTransitions == [][\A o \in Objs : C20_Allowed(tx[o].status, tx'[o].status, tx[o].retryCount)]_vars

\* C21: for every operation, in every reachable state, result is non-null
\* only if the status is COMPLETED, and a COMPLETED operation has a null
\* error: the error of earlier failed attempts is cleared on success.
C21_ResultOnlyWhenCompleted ==
  \A o \in Objs :
    /\ tx[o].result # JsNull => tx[o].status = "COMPLETED"
    /\ tx[o].status = "COMPLETED" => tx[o].error = JsNull

\* C21 witness: an operation completed after a failed attempt; its result is
\* set and the error of the failed attempt is gone.
C21_Witness == \E o \in Objs : tx[o].status = "COMPLETED" /\ tx[o].retryCount > 0 /\ tx[o].result # JsNull /\ tx[o].error = JsNull

\* C22: whenever no loop runs (no process() invocation is suspended and the
\* flag is false) the queue holds no COMPLETED operation and no FAILED
\* operation whose attempt count reached the cap: a loop removes a terminal
\* head in the step that sees it and goes on with the next head.
C22_NoTerminalWhenIdle ==
  (ActiveLoops = {} /\ ~processing) => \A i \in 1..Len(queue) : ~Terminal(tx[queue[i]])

\* C22 witness: the loop is idle with an operation still queued (a FAILED
\* head waiting for its retry) after an operation behind or before it was
\* completed and removed.
C22_Witness ==
  /\ ActiveLoops = {} /\ ~processing
  /\ Len(queue) >= 1
  /\ \E o \in Objs : Terminal(tx[o]) /\ ~InQueue(queue, o)

\* C23: a failure after a successful enqueue is recorded on the operation
\* and stays visible through getStatus(): for every operation whose last
\* submission failed, the id enqueue() returned still answers with the
\* operation in status FAILED and its error message.
C23_FailureVisibleById ==
  \A o \in Created :
    tx[o].status = "FAILED" =>
      /\ getStatus(tx[o].id).found
      /\ getStatus(tx[o].id).status = "FAILED"
      /\ getStatus(tx[o].id).error = tx[o].error
      /\ tx[o].error # JsNull

\* ---------------------------------- the clear calls and the nonce read
\* ClearSpec with a chain whose nonce read may answer any of ChainNonces or
\* fail.
ClearNonceNext ==
  \/ ClearEnqueue
  \/ ProcessCall
  \/ TimerFire
  \/ NonceOk
  \/ NonceFail
  \/ Settle
  \/ Continue
  \/ ClearCompleted
  \/ ClearAll

ClearNonceSpec == ClearInit /\ [][ClearNonceNext]_vars

\* C24: the on-chain nonce is read successfully at most once: once
\* currentNonce is set, no later step (a process() run, a retry, clearAll,
\* setProviderAndSigner) assigns it again or resets it to null.
C24_NonceReadOnce == [][currentNonce # Null => currentNonce' = currentNonce]_vars

\* the operation a successful enqueue() is about to create
C25_New == Cardinality(Created) + 1

\* What the claim allows a successful enqueue() to leave behind: the queue
\* with the new operation at its tail; the new operation with attempt 0,
\* null error and null result, PENDING or already handed to the loop that
\* the call started; every earlier operation as it was, except a PENDING
\* head that the started loop dispatched.
C25_Appended ==
  /\ lastEnqueue' = "ok"
  /\ queue' = Append(queue, C25_New)
  /\ tx'[C25_New].retryCount = 0 /\ tx'[C25_New].error = JsNull /\ tx'[C25_New].result = JsNull
  /\ tx'[C25_New].status \in {"PENDING", "PROCESSING"}
  /\ tx'[C25_New].status = "PROCESSING" => (~processing /\ queue = <<>>)
  /\ \A p \in Created :
       \/ tx'[p] = tx[p]
       \/ ~processing /\ tx[p].status = "PENDING" /\ tx'[p] = [tx[p] EXCEPT !.status = "PROCESSING"]

\* C25: a successful enqueue() appends exactly one new operation (PENDING,
\* attempt 0, null error, null result) at the tail, leaves the order and the
\* contents of the operations queued before unchanged and returns without
\* waiting for a submission, starting the loop only when it is idle.
C25_EnqueueAppendsOnly ==
  \A t \in {Tx(FALSE, "LOG", ValidLog), Tx(FALSE, "NFT", ValidNFT)} : ~ENABLED (enqueue(t) /\ ~C25_Appended)

\* what the claim allows loop l to remove when it resumes after its
\* submission: terminal operations only, the first of them the submitted one
C26_RemovesOwn(l) ==
  \A i \in 1..Len(queue) :
    ~InQueue(queue', queue[i]) =>
       /\ Terminal(tx[queue[i]])
       /\ i = 1 => queue[i] = loops[l].transaction

\* C26: when a submission settles, the operation the loop shifts out of the
\* queue is the one that was submitted, also when clearAll, clearCompleted
\* or enqueue ran meanwhile; the loop never removes an operation that is not
\* terminal.
C26_ShiftRemovesSubmitted == \A l \in LoopIds : ~ENABLED (Resume(l) /\ ~C26_RemovesOwn(l))

\* the process() invocations that await a submission
Submitting == {l \in LoopIds : loops[l].pc = "submit"}

\* C27: there is never more than one active processing loop and never more
\* than one submission outstanding on the signer, also when clearAll() is
\* called while a submission is in flight and an operation is enqueued
\* afterwards.
C27_OneLoopOneSubmission == Cardinality(ActiveLoops) <= 1 /\ Cardinality(Submitting) <= 1

\* C28: every process() invocation terminates when its submissions return:
\* each iteration of the while loop dispatches the head, removes the head or
\* leaves the loop, so no reachable state has a loop that found a PROCESSING
\* head and iterates without end.
C28_LoopNeverSpins == ~Spinning

\* what the claim allows a failed nonce read to leave behind: queue,
\* operations and dispatch counts as they were, the nonce still unset, the
\* flag false, and one more timer when a dispatchable operation is queued
C29_OnlyRescheduled ==
  /\ queue' = queue /\ tx' = tx /\ dispatched' = dispatched
  /\ currentNonce' = currentNonce
  /\ processing' = FALSE
  /\ timers' = IF \E i \in 1..Len(queue) : isSchedulable(tx[queue[i]]) THEN timers + 1 ELSE timers

\* C29: when the nonce read inside process() fails, nothing is dispatched,
\* no status or attempt count changes, the flag returns to false and
\* process() is scheduled again if a dispatchable operation is queued; as
\* long as no read has succeeded every operation is PENDING with attempt 0.
C29_NonceFailureConsumesNothing ==
  /\ \A l \in LoopIds : ~ENABLED (NonceReadFail(l) /\ ~C29_OnlyRescheduled)
  /\ currentNonce = Null => \A o \in Created : tx[o].status = "PENDING" /\ tx[o].retryCount = 0 /\ dispatched[o] = 0

\* C29 witness: a nonce read has failed: the loop is idle with the flag
\* false, a timer is pending and the queued operations are untouched.
C29_Witness ==
  /\ currentNonce = Null /\ signer /\ ~processing /\ ActiveLoops = {}
  /\ timers > 0
  /\ Len(queue) >= 2
  /\ \A i \in 1..Len(queue) : tx[queue[i]].status = "PENDING" /\ tx[queue[i]].retryCount = 0

\* C30: whenever no process() invocation is executing the processing flag
\* is false: each way out of process() taken after the flag was set (queue
\* drained, break on a retryable FAILED head, failed nonce read) resets it.
C30_FlagFalseWhenIdle == ActiveLoops = {} => ~processing

\* C30 witness: no invocation runs and the flag is false after a loop left
\* on a retryable FAILED head, an earlier operation having been completed
\* and removed.
C30_Witness ==
  /\ ActiveLoops = {} /\ ~processing
  /\ queue # <<>> /\ tx[Head(queue)].status = "FAILED" /\ tx[Head(queue)].retryCount < maxRetries
  /\ \E o \in Objs : tx[o].status = "COMPLETED"
  /\ timers > 0

====
